---- MODULE Spec2Model ----
(***************************************************************************)
(* visualize_gc_spreads.py as a state machine: one run of the script, from *)
(* os.makedirs through the loader and the seven charts to the final print. *)
(*                                                                         *)
(* Rates are whole numbers of percent, dates are days since 1970-01-01.    *)
(* A cell of a pandas column is a record [kind, num, text]:                *)
(*   float  a float64 value num          nan  the float64 NaN              *)
(*   str    a Python str (object column) ts   a Timestamp on day num       *)
(*   nat    NaT                          int  an int64 of num days' worth  *)
(*                                            of nanoseconds               *)
(***************************************************************************)
EXTENDS Integers, Sequences, FiniteSets, TLC

VARIABLES
    file,      \* the CSV file on disk: [state, header, rows]
    failAt,    \* where the environment makes a library call raise ("none": nowhere)
    pc,        \* the statement group the run is at: <<stage, chart number>>
    error,     \* "" while no exception was raised, else the exception's name
    dirMade,   \* OUTPUT_DIR was created by os.makedirs
    df,        \* the DataFrame: [columns, index, col]
    written,   \* the image files savefig wrote, in order
    printed,   \* the lines printed, in order
    out        \* what each chart computed and plotted

vars == <<file, failAt, pc, error, dirMade, df, written, printed, out>>

----------------------------------------------------------------------------
(* Configuration and column groups                                          *)

base_tenors == <<"2Y", "3Y", "5Y", "7Y", "10Y", "20Y", "30Y">>

gc_col == "GC"

tenor_order == <<"2Y", "3Y", "5Y", "7Y", "10Y", "20Y", "30Y">>

group_names == <<"Same-Day", "O (Overnight)", "OO (2-Day)", "OOO (3-Day)">>

\* f"O{t}", f"OO{t}", f"OOO{t}" for t in base_tenors
groups ==
    ("Same-Day" :> base_tenors)
    @@ ("O (Overnight)" :> <<"O2Y", "O3Y", "O5Y", "O7Y", "O10Y", "O20Y", "O30Y">>)
    @@ ("OO (2-Day)" :> <<"OO2Y", "OO3Y", "OO5Y", "OO7Y", "OO10Y", "OO20Y", "OO30Y">>)
    @@ ("OOO (3-Day)" :> <<"OOO2Y", "OOO3Y", "OOO5Y", "OOO7Y", "OOO10Y", "OOO20Y", "OOO30Y">>)

chart_files ==
    <<"01_gc_vs_tenors.png", "02_spread_to_gc.png", "03_term_structure_comparison.png",
      "04_rate_heatmap.png", "05_rolling_volatility.png", "06_curve_snapshots.png",
      "07_correlation_matrix.png">>

chart_lines ==
    <<"Chart 1: GC vs Tenors saved", "Chart 2: Spread to GC saved",
      "Chart 3: Term Structure Comparison saved", "Chart 4: Rate Heatmap saved",
      "Chart 5: Rolling Volatility saved", "Chart 6: Curve Snapshots saved",
      "Chart 7: Correlation Matrix saved">>

final_line == "All charts saved to: charts/"

----------------------------------------------------------------------------
(* Cells and sequences                                                      *)

NaN == [kind |-> "nan", num |-> 0, text |-> ""]

NaT == [kind |-> "nat", num |-> 0, text |-> ""]

Float(n) == [kind |-> "float", num |-> n, text |-> ""]

Str(s) == [kind |-> "str", num |-> 0, text |-> s]

Ts(d) == [kind |-> "ts", num |-> d, text |-> ""]

Int64(d) == [kind |-> "int", num |-> d, text |-> ""]

\* pd.isna / pd.notna
IsNa(c) == c.kind \in {"nan", "nat"}

Range(s) == {s[i] : i \in DOMAIN s}

\* the elements of s at the positions (1-based, in order) listed in ps
Take(s, ps) == [k \in 1..Len(ps) |-> s[ps[k]]]

\* the positions, ascending from i, at which the sequence of flags holds TRUE
RECURSIVE Positions(_, _)
Positions(flags, i) ==
    IF i > Len(flags) THEN <<>>
    ELSE (IF flags[i] THEN <<i>> ELSE <<>>) \o Positions(flags, i + 1)

----------------------------------------------------------------------------
(* The text of the file                                                     *)

\* the numeric literals the files are drawn from, with the float each parses to
NumValue == ("1" :> 1) @@ ("2" :> 2) @@ ("3" :> 3) @@ ("5" :> 5)

\* the date strings the files are drawn from, with the day each parses to
DateValue ==
    ("2024-01-02" :> 19724) @@ ("2024-01-03" :> 19725) @@ ("2024-01-04" :> 19726)
    @@ ("2024-01-05" :> 19727) @@ ("2024-01-08" :> 19730) @@ ("2024-01-09" :> 19731)
    @@ ("2024-01-10" :> 19732) @@ ("2024-01-11" :> 19733) @@ ("2024-01-12" :> 19734)
    @@ ("2024-01-16" :> 19738)

\* the cell texts read_csv takes for missing (of its default na_values)
NaValues == {"", "n/a", "#N/A", "NA", "NaN"}

----------------------------------------------------------------------------
(* Load & Clean                                                             *)

\* read_csv infers a column holding only numbers and missing cells as float64
ColumnIsNumeric(rows, j) ==
    \A i \in DOMAIN rows : rows[i][j] \in NaValues \/ rows[i][j] \in DOMAIN NumValue

ReadCell(rows, i, j) ==
    IF rows[i][j] \in NaValues THEN NaN
    ELSE IF ColumnIsNumeric(rows, j) THEN Float(NumValue[rows[i][j]])
    ELSE Str(rows[i][j])

\* pd.read_csv(CSV_FILE, skiprows=1) of a file with a header line: f.header is
\* the file's second line, f.rows the lines after it, cell by cell
read_csv(f) ==
    [columns |-> f.header,
     index |-> [i \in 1..Len(f.rows) |-> i - 1],
     col |-> [c \in Range(f.header) |->
                LET j == CHOOSE k \in DOMAIN f.header : f.header[k] = c
                IN [i \in 1..Len(f.rows) |-> ReadCell(f.rows, i, j)]]]

\* pd.to_datetime(..., errors="coerce"), cell by cell; a number counts
\* nanoseconds from the epoch, day 0
ToDatetimeCell(c) ==
    CASE c.kind = "str" -> IF c.text \in DOMAIN DateValue THEN Ts(DateValue[c.text]) ELSE NaT
      [] c.kind = "float" -> Ts(0)
      [] c.kind = "ts" -> c
      [] OTHER -> NaT

to_datetime(s) == [i \in DOMAIN s |-> ToDatetimeCell(s[i])]

\* pd.to_numeric(..., errors="coerce"), cell by cell
ToNumericCell(c) ==
    CASE c.kind = "str" -> IF c.text \in DOMAIN NumValue THEN Float(NumValue[c.text]) ELSE NaN
      [] c.kind = "float" -> c
      [] c.kind = "ts" -> Int64(c.num)
      [] c.kind = "int" -> c
      [] OTHER -> NaN

to_numeric(s) == [i \in DOMAIN s |-> ToNumericCell(s[i])]

\* the rows of d at the positions ps
TakeRows(d, ps) ==
    [columns |-> d.columns,
     index |-> Take(d.index, ps),
     col |-> [c \in DOMAIN d.col |-> Take(d.col[c], ps)]]

\* df.dropna(): a row with any missing cell is dropped
DropNaAny(d) ==
    TakeRows(d, Positions([i \in DOMAIN d.index |-> \A c \in DOMAIN d.col : ~IsNa(d.col[c][i])], 1))

\* df.dropna(subset=["time"])
DropNaTime(d) ==
    TakeRows(d, Positions([i \in DOMAIN d.index |-> ~IsNa(d.col["time"][i])], 1))

\* for col in df.columns[1:]: df[col] = pd.to_numeric(df[col], errors="coerce")
CoercedColumns(d) == {d.columns[k] : k \in 2..Len(d.columns)}

CoerceColumns(d) ==
    [d EXCEPT !.col = [c \in DOMAIN d.col |->
        IF c \in CoercedColumns(d) THEN to_numeric(d.col[c]) ELSE d.col[c]]]

\* lines 26-32 on a file that read_csv accepts and that has a "time" column
LoadClean(f) ==
    LET raw == read_csv(f)
        dated == [raw EXCEPT !.col["time"] = to_datetime(raw.col["time"])]
    IN CoerceColumns(DropNaTime(dated))

\* the exception read_csv or df["time"] raises on this file, "" when none; an
\* "empty" file has no line after the skipped one
LoadError(f) ==
    CASE f.state = "absent" -> "FileNotFoundError"
      [] f.state = "empty" -> "EmptyDataError"
      [] "time" \notin Range(f.header) -> "KeyError"
      [] OTHER -> ""

EmptyFrame == [columns |-> <<>>, index |-> <<>>, col |-> <<>>]

\* line 20: os.makedirs(OUTPUT_DIR, exist_ok=True)
Setup ==
    /\ pc = <<"setup", 0>> /\ error = ""
    /\ IF failAt = "makedirs"
       THEN /\ error' = "OSError"
            /\ UNCHANGED <<pc, dirMade>>
       ELSE /\ dirMade' = TRUE
            /\ pc' = <<"load", 0>>
            /\ UNCHANGED error
    /\ UNCHANGED <<file, failAt, df, written, printed, out>>

\* a loader that falls back to an empty table when the file cannot be read
LoadFallback ==
    /\ pc = <<"load", 0>> /\ error = ""
    /\ IF file.state # "ok"
       THEN /\ df' = EmptyFrame
            /\ pc' = <<"chart", 1>>
            /\ UNCHANGED error
       ELSE IF LoadError(file) # ""
       THEN /\ error' = LoadError(file)
            /\ UNCHANGED <<pc, df>>
       ELSE /\ df' = LoadClean(file)
            /\ pc' = <<"chart", 1>>
            /\ UNCHANGED error
    /\ UNCHANGED <<file, failAt, dirMade, written, printed, out>>

\* lines 26-32
Load ==
    /\ pc = <<"load", 0>> /\ error = ""
    /\ IF LoadError(file) # ""
       THEN /\ error' = LoadError(file)
            /\ UNCHANGED <<pc, df>>
       ELSE /\ df' = LoadClean(file)
            /\ pc' = <<"chart", 1>>
            /\ UNCHANGED error
    /\ UNCHANGED <<file, failAt, dirMade, written, printed, out>>

----------------------------------------------------------------------------
(* Series arithmetic.  The runs that reach the charts read files whose      *)
(* first column is "time", so every rate column is float64 there.           *)

Scale == 100

Present(c) == c \in Range(df.columns)

\* the base tenors the table has, in base_tenors order: "if tenor in df.columns"
PresentOf(cols) == SelectSeq(cols, Present)

\* a - b with a missing operand taken as 0
SubCellFillZero(a, b) ==
    Float((IF IsNa(a) THEN 0 ELSE a.num) - (IF IsNa(b) THEN 0 ELSE b.num))

\* a - b on float64: NaN when either is NaN
SubCell(a, b) == IF IsNa(a) \/ IsNa(b) THEN NaN ELSE Float(a.num - b.num)

\* a * k on float64
MulCell(a, k) == IF IsNa(a) THEN NaN ELSE Float(a.num * k)

\* date.strftime("%Y-%m-%d")
strftime(c) == CHOOSE t \in DOMAIN DateValue : DateValue[t] = c.num

RECURSIVE SumOver(_, _)
SumOver(S, f) ==
    IF S = {} THEN 0
    ELSE LET x == CHOOSE y \in S : TRUE IN f[x] + SumOver(S \ {x}, f)

----------------------------------------------------------------------------
(* Chart 1: GC Rate + Base Tenors Over Time                                 *)

\* df[...] with a label the table lacks raises KeyError
Missing(cols) == \E i \in DOMAIN cols : ~Present(cols[i])

\* the finite values of the columns cols
FiniteValues(cols) ==
    {c.num : c \in {x \in UNION {Range(df.col[cols[k]]) : k \in DOMAIN cols} : ~IsNa(x)}}

MinOf(S) == CHOOSE m \in S : \A x \in S : m <= x

\* twice max(0, df[base_tenors + [gc_col]].min().min() - 0.5); max(0, nan) is 0
YLimBottomTwice(cols) ==
    IF FiniteValues(cols) = {} THEN 0
    ELSE IF 2 * MinOf(FiniteValues(cols)) - 1 > 0 THEN 2 * MinOf(FiniteValues(cols)) - 1
    ELSE 0

\* lines 66 and 77 index the table by labels without testing for them
Chart1KeyError == ~Present(gc_col) \/ Missing(base_tenors \o <<gc_col>>)

Chart1Out ==
    [legend |-> <<"GC Rate">> \o PresentOf(base_tenors),
     ylim2 |-> YLimBottomTwice(base_tenors \o <<gc_col>>)]

----------------------------------------------------------------------------
(* Chart 2: Spread to GC                                                    *)

\* (df[tenor] - df[gc_col]) * 100
Spread(tenor) ==
    [i \in DOMAIN df.index |-> MulCell(SubCell(df.col[tenor][i], df.col[gc_col][i]), Scale)]

Chart2KeyError == PresentOf(base_tenors) # <<>> /\ ~Present(gc_col)

Chart2Out == [t \in Range(PresentOf(base_tenors)) |-> Spread(t)]

----------------------------------------------------------------------------
(* Chart 3: Term Structure Comparison                                       *)

tenor_colors ==
    ("2Y" :> "#1f77b4") @@ ("3Y" :> "#ff7f0e") @@ ("5Y" :> "#2ca02c") @@ ("7Y" :> "#d62728")
    @@ ("10Y" :> "#9467bd") @@ ("20Y" :> "#8c564b") @@ ("30Y" :> "#e377c2")

\* col.lstrip("O") for the columns of the groups
lstripO(c) ==
    LET g == CHOOSE n \in DOMAIN groups : c \in Range(groups[n])
        k == CHOOSE j \in DOMAIN groups[g] : groups[g][j] = c
    IN base_tenors[k]

\* tenor_colors.get(tenor, "gray")
ColorOf(tenor) == IF tenor \in DOMAIN tenor_colors THEN tenor_colors[tenor] ELSE "gray"

TermLines(g) ==
    LET cols == PresentOf(groups[g])
    IN [k \in 1..Len(cols) |->
            [col |-> cols[k], label |-> lstripO(cols[k]), color |-> ColorOf(lstripO(cols[k]))]]
       \o <<[col |-> gc_col, label |-> "GC", color |-> "black"]>>

Chart3KeyError == ~Present(gc_col)

Chart3Out == [g \in Range(group_names) |-> TermLines(g)]

----------------------------------------------------------------------------
(* Chart 4: Heatmap of Rates Over Time                                      *)

heatmap_cols == <<gc_col>> \o base_tenors

\* dropna() with its default how="any"
RowsFullyPresent(cols) ==
    Positions([i \in DOMAIN df.index |-> \A k \in DOMAIN cols : ~IsNa(df.col[cols[k]][i])], 1)

\* the positions of the table's rows with a value in at least one of cols
RowsAnyPresent(cols) ==
    Positions([i \in DOMAIN df.index |-> \E k \in DOMAIN cols : ~IsNa(df.col[cols[k]][i])], 1)

\* df.set_index("time")[heatmap_cols].dropna(how="all"), index as strftime text;
\* rows records the table positions the kept rows came from
HeatmapDf ==
    LET ps == RowsAnyPresent(heatmap_cols)
    IN [index |-> [k \in 1..Len(ps) |-> strftime(df.col["time"][ps[k]])],
        rows |-> ps,
        col |-> [c \in Range(heatmap_cols) |-> Take(df.col[c], ps)]]

Chart4KeyError == Missing(heatmap_cols)

----------------------------------------------------------------------------
(* Chart 5: Rolling 5-Day Std Dev                                           *)

Window == 5

\* Rolling.std's default delta degrees of freedom
Ddof == 1

\* rolling(window=5): min_periods defaults to the window
MinPeriods == Window

\* the positions of the window ending at i
WindowAt(i) == {j \in 1..i : j > i - Window}

\* the population standard deviation (divisor n) in place of the sample one
RollingStdSqPopulation(s, i) ==
    LET obs == {j \in WindowAt(i) : ~IsNa(s[j])}
        n == Cardinality(obs)
        sum == SumOver(obs, [j \in obs |-> s[j].num])
        sumsq == SumOver(obs, [j \in obs |-> s[j].num * s[j].num])
    IN IF n < MinPeriods THEN NaN
       ELSE Float((Scale * Scale * (n * sumsq - sum * sum)) \div (n * n))

\* The square of rolling(window).std() * 100 at position i, in bps squared (the
\* standard deviation is its non-negative root): NaN with fewer than min_periods
\* observations in the window, which skips NaN
RollingStdSq(s, i) ==
    LET obs == {j \in WindowAt(i) : ~IsNa(s[j])}
        n == Cardinality(obs)
        sum == SumOver(obs, [j \in obs |-> s[j].num])
        sumsq == SumOver(obs, [j \in obs |-> s[j].num * s[j].num])
    IN IF n < MinPeriods \/ n <= Ddof THEN NaN
       ELSE Float((Scale * Scale * (n * sumsq - sum * sum)) \div (n * (n - Ddof)))

RollingSeries(c) == [i \in DOMAIN df.index |-> RollingStdSq(df.col[c], i)]

Chart5KeyError == ~Present(gc_col)

Chart5Out == [c \in Range(PresentOf(base_tenors)) \cup {gc_col} |-> RollingSeries(c)]

----------------------------------------------------------------------------
(* Chart 6: Curve Snapshots                                                 *)

MaxSnapshots == 6

Min(a, b) == IF a < b THEN a ELSE b

\* linspace rounded to the nearest integer (np.round before the cast)
linspace_round(stop, num) ==
    [k \in 1..num |->
        IF num = 1 THEN 0 ELSE (2 * (k - 1) * stop + (num - 1)) \div (2 * (num - 1))]

\* np.linspace(start, stop, num, dtype=int): start + i*(stop-start)/(num-1) cut to
\* an integer toward zero (astype(int)); here start = 0 <= stop
linspace_int(stop, num) ==
    [k \in 1..num |-> IF num = 1 THEN 0 ELSE ((k - 1) * stop) \div (num - 1)]

\* df[df["time"] == date].iloc[0]: the first row carrying that date
FirstRowWith(date) == CHOOSE i \in DOMAIN df.index :
    /\ df.col["time"][i] = date
    /\ \A j \in 1..(i - 1) : df.col["time"][j] # date

\* row[t] if t in df.columns and pd.notna(row[t]) else np.nan
SnapshotRates(i) ==
    [k \in DOMAIN tenor_order |->
        IF Present(tenor_order[k]) /\ ~IsNa(df.col[tenor_order[k]][i])
        THEN df.col[tenor_order[k]][i] ELSE NaN]

\* positions are iloc positions (0-based)
SnapshotOut ==
    LET n == Len(df.index)
        pos == linspace_int(n - 1, Min(MaxSnapshots, n))
        dates == [k \in DOMAIN pos |-> df.col["time"][pos[k] + 1]]
    IN [positions |-> pos,
        curves |-> [k \in DOMAIN pos |->
            [label |-> strftime(dates[k]), rates |-> SnapshotRates(FirstRowWith(dates[k]))]]]

----------------------------------------------------------------------------
(* Chart 7: Correlation Matrix                                              *)

corr_cols == <<gc_col>> \o base_tenors

\* the positions of the table's rows with a value in every one of cols
RowsAllPresent(cols) ==
    Positions([i \in DOMAIN df.index |-> \A k \in DOMAIN cols : ~IsNa(df.col[cols[k]][i])], 1)

\* df[corr_cols].dropna(); the frame keeps the index labels of the rows it keeps
CorrDf ==
    LET ps == RowsAllPresent(corr_cols)
    IN [index |-> Take(df.index, ps),
        col |-> [c \in Range(corr_cols) |-> Take(df.col[c], ps)]]

Chart7KeyError == Missing(corr_cols)

----------------------------------------------------------------------------
(* The run                                                                  *)

NoOutput ==
    [chart1 |-> <<>>, spread |-> <<>>, term |-> <<>>, heatmap |-> <<>>,
     rolling |-> <<>>, snapshots |-> <<>>, corr_df |-> <<>>]

\* a chart whose exception is swallowed: the run goes on to the confirmation
ChartStepSwallow(k, keyError, newOut) ==
    /\ pc = <<"chart", k>> /\ error = ""
    /\ IF keyError \/ failAt = chart_files[k]
       THEN UNCHANGED <<out, written>>
       ELSE /\ out' = newOut
            /\ written' = Append(written, chart_files[k])
    /\ pc' = <<"print", k>>
    /\ UNCHANGED <<file, failAt, error, dirMade, df, printed>>

\* one chart's statements up to its savefig: a missing label raises KeyError, the
\* environment may make a library call raise (failAt: a full disk, a matrix
\* seaborn cannot scale), else the image file is written
ChartStep(k, keyError, newOut) ==
    /\ pc = <<"chart", k>> /\ error = ""
    /\ IF keyError
       THEN /\ error' = "KeyError"
            /\ UNCHANGED <<pc, out, written>>
       ELSE IF failAt = chart_files[k]
       THEN /\ error' = "Error"
            /\ UNCHANGED <<pc, out, written>>
       ELSE /\ out' = newOut
            /\ written' = Append(written, chart_files[k])
            /\ pc' = <<"print", k>>
            /\ UNCHANGED error
    /\ UNCHANGED <<file, failAt, dirMade, df, printed>>

Chart1 == ChartStep(1, Chart1KeyError, [out EXCEPT !.chart1 = Chart1Out])

Chart2 == ChartStep(2, Chart2KeyError, [out EXCEPT !.spread = Chart2Out])

Chart3 == ChartStep(3, Chart3KeyError, [out EXCEPT !.term = Chart3Out])

Chart4 == ChartStep(4, Chart4KeyError, [out EXCEPT !.heatmap = HeatmapDf])

Chart5 == ChartStep(5, Chart5KeyError, [out EXCEPT !.rolling = Chart5Out])

Chart6 == ChartStep(6, FALSE, [out EXCEPT !.snapshots = SnapshotOut])

Chart7 == ChartStep(7, Chart7KeyError, [out EXCEPT !.corr_df = CorrDf])

\* print("Chart k: ... saved") after chart k's savefig and plt.close
Confirm ==
    \E k \in DOMAIN chart_files :
        /\ pc = <<"print", k>> /\ error = ""
        /\ printed' = Append(printed, chart_lines[k])
        /\ pc' = IF k < Len(chart_files) THEN <<"chart", k + 1>> ELSE <<"final", 0>>
        /\ UNCHANGED <<file, failAt, error, dirMade, df, written, out>>

\* line 204
Finish ==
    /\ pc = <<"final", 0>> /\ error = ""
    /\ printed' = Append(printed, final_line)
    /\ pc' = <<"done", 0>>
    /\ UNCHANGED <<file, failAt, error, dirMade, df, written, out>>

Next ==
    \/ Setup \/ Load
    \/ Chart1 \/ Chart2 \/ Chart3 \/ Chart4 \/ Chart5 \/ Chart6 \/ Chart7
    \/ Confirm \/ Finish

NextLoad == Setup \/ Load

----------------------------------------------------------------------------
(* Input files                                                              *)

FullHeader == <<"time", "GC">> \o base_tenors \o <<"O2Y", "OO2Y", "OOO2Y">>

\* one line of the file under header h: the text of the date cell, of the GC
\* cell, of the 5Y cell and of every other cell
MkRow(h, t, g, x, r) ==
    [j \in 1..Len(h) |->
        CASE h[j] \in {"time", "date"} -> t
          [] h[j] = gc_col -> g
          [] h[j] = "5Y" -> x
          [] OTHER -> r]

\* the dates of consecutive trading days, as the file writes them
DateTexts ==
    <<"2024-01-02", "2024-01-03", "2024-01-04", "2024-01-05", "2024-01-08",
      "2024-01-09", "2024-01-10", "2024-01-11", "2024-01-12", "2024-01-16">>

\* the date text of line i: "own" stands for the i-th trading day
TimeOf(i, t) == IF t = "own" THEN DateTexts[i] ELSE t

\* the files of n lines whose date texts are drawn from times and whose rate
\* texts <<GC, 5Y, others>> from rates
RowsOf(h, n, times, rates) ==
    {[i \in 1..n |-> MkRow(h, TimeOf(i, tt[i]), rr[i][1], rr[i][2], rr[i][3])] :
        tt \in [1..n -> times], rr \in [1..n -> rates]}

OkFile(h, rows) == [state |-> "ok", header |-> h, rows |-> rows]

BadFiles == {[state |-> s, header |-> <<>>, rows |-> <<>>] : s \in {"absent", "empty"}}

InitRun ==
    /\ pc = <<"setup", 0>>
    /\ error = ""
    /\ dirMade = FALSE
    /\ df = EmptyFrame
    /\ written = <<>>
    /\ printed = <<>>
    /\ out = NoOutput

(* The loader on every header layout: the data file's own, one with "time"   *)
(* in second place, one with it in third place, one with no "time" column.  *)

MaxLoadRows == 3

Layouts ==
    { FullHeader,
      <<"GC", "time">> \o base_tenors,
      <<"5Y", "GC", "time", "2Y">>,
      <<"date", "GC">> \o base_tenors }

TimeTexts == {"2024-01-02", "2024-01-03", "Total", ""}

RateTexts == {<<"1", "2", "2">>, <<"", "#DIV/0!", "3">>, <<"2", "#DIV/0!", "1">>}

InitLoad ==
    /\ InitRun
    /\ failAt \in {"none", "makedirs"}
    /\ \/ file \in BadFiles
       \/ \E h \in Layouts, n \in 0..MaxLoadRows :
            \E rows \in RowsOf(h, n, TimeTexts, RateTexts) : file = OkFile(h, rows)

SpecLoad == InitLoad /\ [][NextLoad]_vars

(* Whole runs: files present or not, headers with and without the columns   *)
(* the charts name (no overnight columns, no 5Y, no GC, no "time"), and a   *)
(* failure the environment may cause at any step.                           *)

MaxRows == 2

RunLayouts ==
    { FullHeader,
      <<"time", "GC">> \o base_tenors,
      <<"time", "GC", "2Y", "3Y", "7Y", "10Y", "20Y", "30Y", "OO2Y">>,
      <<"time">> \o base_tenors \o <<"O2Y", "O3Y", "OO2Y", "OOO2Y", "OOO3Y">>,
      <<"date", "GC">> \o base_tenors }

FailPoints == {"none", "makedirs"} \cup Range(chart_files)

RunTimeTexts == {"2024-01-02", "2024-01-03", "Total"}

RunRateTexts == {<<"1", "2", "2">>, <<"2", "#DIV/0!", "1">>}

Init ==
    /\ InitRun
    /\ failAt \in FailPoints
    /\ \/ file \in BadFiles
       \/ \E h \in RunLayouts, n \in 0..MaxRows :
            \E rows \in RowsOf(h, n, RunTimeTexts, RunRateTexts) : file = OkFile(h, rows)

Spec == Init /\ [][Next]_vars

(* The row filters and the spread: the data file's header, lines with every  *)
(* pattern of missing cells, each on its own trading day or with no date.   *)
(* The plotting library may refuse a matrix (sns.heatmap of no rows).       *)

HeatmapFailPoints == {"none", chart_files[4], chart_files[7]}

MaxCalcRows == 3

CalcLines ==
    { <<"own", "1", "2", "2">>,              \* complete, tenors above GC
      <<"own", "3", "1", "2">>,              \* complete, tenors below GC
      <<"own", "2", "#DIV/0!", "1">>,        \* 5Y missing
      <<"own", "", "2", "3">>,               \* GC missing
      <<"own", "1", "", "#DIV/0!">>,         \* only GC present
      <<"own", "#DIV/0!", "", "">>,          \* every rate missing
      <<"Total", "2", "2", "2">> }           \* no date

LinesOf(h, n, lines) ==
    {[i \in 1..n |-> MkRow(h, TimeOf(i, ll[i][1]), ll[i][2], ll[i][3], ll[i][4])] :
        ll \in [1..n -> lines]}

InitCalc ==
    /\ InitRun
    /\ failAt \in HeatmapFailPoints
    /\ \E n \in 0..MaxCalcRows :
            \E rows \in LinesOf(FullHeader, n, CalcLines) : file = OkFile(FullHeader, rows)

SpecCalc == InitCalc /\ [][Next]_vars

(* Rolling volatility: tables long enough for the window to slide, each     *)
(* series taking two values and NaN.                                        *)

MaxVolRows == 6

VolLines ==
    { <<"own", "1", "2", "3">>,
      <<"own", "3", "5", "1">>,
      <<"own", "#DIV/0!", "", "2">> }

InitVol ==
    /\ InitRun
    /\ failAt \in HeatmapFailPoints
    /\ \E n \in 0..MaxVolRows :
            \E rows \in LinesOf(FullHeader, n, VolLines) : file = OkFile(FullHeader, rows)

SpecVol == InitVol /\ [][Next]_vars

(* Curve snapshots: tables of up to MaxSnapRows rows, whose lines carry     *)
(* their own trading day or the first trading day again; the rates of a     *)
(* line follow from its number.                                             *)

MaxSnapRows == 9

SnapTimeTexts == <<"own", "2024-01-02">>

RateCycle == <<"1", "2", "3", "5">>

SnapRow(h, i, t) ==
    MkRow(h, TimeOf(i, t), RateCycle[(i % Len(RateCycle)) + 1],
          RateCycle[((i + 1) % Len(RateCycle)) + 1],
          IF i % 3 = 0 THEN "#DIV/0!" ELSE RateCycle[((i + 2) % Len(RateCycle)) + 1])

\* the longest tables first
InitSnap ==
    /\ InitRun
    /\ failAt \in HeatmapFailPoints
    /\ \E m \in 0..MaxSnapRows :
            \E tt \in [1..(MaxSnapRows - m) -> DOMAIN SnapTimeTexts] :
                file = OkFile(FullHeader,
                    [i \in 1..(MaxSnapRows - m) |-> SnapRow(FullHeader, i, SnapTimeTexts[tt[i]])])

SpecSnap == InitSnap /\ [][Next]_vars

----------------------------------------------------------------------------
(* The loader's properties                                                 *)

\* the loader has run to its end
Loaded == pc[1] \notin {"setup", "load"}

\* the text of the "time" cell of the file's i-th data row
TimeText(i) == file.rows[i][CHOOSE k \in DOMAIN file.header : file.header[k] = "time"]

\* the text of the cell of the file's i-th data row under column c
CellText(i, c) == file.rows[i][CHOOSE k \in DOMAIN file.header : file.header[k] = c]

\* C2: after the loader, a data row of the file is in the cleaned table if and
\* only if its "time" cell parsed as a timestamp, whatever its rate cells hold;
\* the kept rows are in input order and each carries the date of its own line.
C2_RowsKeptIffDateParses ==
    Loaded =>
        /\ \A i \in DOMAIN file.rows :
                (i - 1 \in Range(df.index)) <=> (TimeText(i) \in DOMAIN DateValue)
        /\ \A k \in 1..(Len(df.index) - 1) : df.index[k] < df.index[k + 1]
        /\ \A c \in Range(df.columns) : Len(df.col[c]) = Len(df.index)
        /\ \A k \in DOMAIN df.index :
                df.col["time"][k].num = DateValue[TimeText(df.index[k] + 1)]

\* a file with a row dropped for its date and a row kept with a blank GC cell
\* and a "#DIV/0!" cell
C2_Witness ==
    /\ Loaded
    /\ \E i \in DOMAIN file.rows : i - 1 \notin Range(df.index)
    /\ \E i \in DOMAIN file.rows :
            /\ i - 1 \in Range(df.index)
            /\ CellText(i, gc_col) = ""
            /\ CellText(i, "5Y") = "#DIV/0!"

\* C3: the rows of the cleaned table have unique trading dates in ascending
\* order: each row's date is later than the date of the row before it.
C3_DatesUniqueAscending ==
    Loaded =>
        \A k \in 1..(Len(df.index) - 1) : df.col["time"][k].num < df.col["time"][k + 1].num

\* C10: for every header layout with a "time" column, wherever it stands, the
\* loader leaves every other column float64 (a non-numeric text as NaN) and the
\* "time" column as timestamps.
C10_EveryOtherColumnCoerced ==
    Loaded =>
        \A c \in Range(df.columns) : \A k \in DOMAIN df.index :
            IF c = "time" THEN df.col[c][k].kind = "ts"
            ELSE /\ df.col[c][k].kind \in {"float", "nan"}
                 /\ df.col[c][k].kind = "float" <=>
                        CellText(df.index[k] + 1, c) \in DOMAIN NumValue
                 /\ df.col[c][k].kind = "float" =>
                        df.col[c][k].num = NumValue[CellText(df.index[k] + 1, c)]

----------------------------------------------------------------------------
(* Whole runs, under Spec                                                   *)

Failed == error # ""

Ended == Failed \/ pc[1] = "done"

\* the chart confirmation lines printed so far
Confirmations == SelectSeq(printed, LAMBDA l : l \in Range(chart_lines))

IsPrefix(s, t) == Len(s) <= Len(t) /\ s = SubSeq(t, 1, Len(s))

\* C1: whichever (group, tenor) columns the input lacks, a tenor of the Same-Day
\* group included, the run completes without error and writes all 7 charts, each
\* chart of the group plotting the tenors the table has.
C1_AbsentTenorOmitted ==
    (/\ Ended
     /\ file.state = "ok"
     /\ {"time", gc_col} \subseteq Range(file.header)
     /\ failAt = "none")
    => /\ ~Failed
       /\ written = chart_files
       /\ out.chart1.legend = <<"GC Rate">> \o PresentOf(base_tenors)
       /\ DOMAIN out.spread = Range(PresentOf(base_tenors))
       /\ \A g \in Range(group_names) :
            [k \in 1..(Len(out.term[g]) - 1) |-> out.term[g][k].col] = PresentOf(groups[g])

\* C8: with the input file absent or empty the run aborts at the load step with
\* an error: no chart file is written and no confirmation line is printed.
C8_AbortsAtLoad ==
    file.state \in {"absent", "empty"} =>
        /\ pc[1] \in {"setup", "load"}
        /\ written = <<>>
        /\ printed = <<>>
        /\ pc[1] = "load" /\ Failed =>
                error = IF file.state = "absent" THEN "FileNotFoundError" ELSE "EmptyDataError"

\* the run has stopped at the load step on an empty file, the directory made
C8_Witness ==
    /\ file.state = "empty"
    /\ pc[1] = "load"
    /\ error = "EmptyDataError"
    /\ dirMade

\* C9: a run that finishes without error has written exactly the 7 image files,
\* each once and in sequence-number order; chart k's confirmation line is printed
\* only after chart k's file is written, the final line only after all 7; a
\* failure while producing chart k ends the run with charts 1..k-1 written and
\* confirmed and nothing after.
C9_ChartSequence ==
    /\ IsPrefix(written, chart_files)
    /\ IsPrefix(Confirmations, chart_lines)
    /\ Len(Confirmations) <= Len(written)
    /\ Len(written) <= Len(Confirmations) + 1
    /\ final_line \in Range(printed) =>
            /\ Len(written) = Len(chart_files)
            /\ printed = chart_lines \o <<final_line>>
    /\ pc[1] = "done" =>
            /\ ~Failed
            /\ written = chart_files
            /\ printed = chart_lines \o <<final_line>>
    /\ (Failed /\ pc[1] = "chart") =>
            /\ written = SubSeq(chart_files, 1, pc[2] - 1)
            /\ printed = SubSeq(chart_lines, 1, pc[2] - 1)
    /\ Failed => pc[1] \in {"setup", "load", "chart"}

\* a run over a table with rows that finished: 7 files, 7 lines and the final line
C9_Witness ==
    /\ pc[1] = "done"
    /\ Len(written) = 7
    /\ Len(printed) = 8
    /\ Len(df.index) > 0

----------------------------------------------------------------------------
(* The charts' computations                                                 *)

\* chart k's file has been written
Saved(k) == Len(written) >= k

\* the GC and base-tenor columns in which row i of the table has no value
MissingIn(i) == {c \in Range(corr_cols) : df.col[c][i].kind = "nan"}

\* C5: a row with some but not all of the GC and base-tenor values missing is
\* left out of the data the correlation matrix is computed over and is kept in
\* the heatmap matrix with its missing cells blank: the correlation input is
\* exactly the rows with no missing value, and the heatmap drops exactly the
\* rows with every value missing.
C5_CorrelationAndHeatmapRows ==
    Saved(7) =>
        /\ \A i \in DOMAIN df.index :
            /\ (df.index[i] \in Range(out.corr_df.index)) <=> (MissingIn(i) = {})
            /\ (i \in Range(out.heatmap.rows)) <=> (MissingIn(i) # Range(heatmap_cols))
        /\ \A k \in DOMAIN out.heatmap.rows : \A c \in Range(heatmap_cols) :
            /\ out.heatmap.col[c][k] = df.col[c][out.heatmap.rows[k]]
            /\ out.heatmap.index[k] = TimeText(df.index[out.heatmap.rows[k]] + 1)
        /\ \A k \in 1..(Len(out.heatmap.rows) - 1) :
            out.heatmap.rows[k] < out.heatmap.rows[k + 1]
        /\ \A k \in DOMAIN out.corr_df.index : \A c \in Range(corr_cols) :
            \E i \in DOMAIN df.index :
                df.index[i] = out.corr_df.index[k] /\ out.corr_df.col[c][k] = df.col[c][i]

\* a finished run whose table has a row with only 5Y missing: in the heatmap
\* with a blank 5Y cell, not in the correlation input
C5_Witness ==
    /\ pc[1] = "done"
    /\ \E i \in DOMAIN df.index :
        /\ MissingIn(i) = {"5Y"}
        /\ df.index[i] \notin Range(out.corr_df.index)
        /\ \E k \in DOMAIN out.heatmap.rows :
            out.heatmap.rows[k] = i /\ out.heatmap.col["5Y"][k] = NaN
    /\ \E i \in DOMAIN df.index : MissingIn(i) = Range(heatmap_cols)
    /\ \E i \in DOMAIN df.index : MissingIn(i) = {}

\* C7: for every row and every base tenor of the table the plotted spread is
\* 100 x (tenor rate - GC rate) when both are present and missing otherwise.
C7_SpreadToGC ==
    Saved(2) =>
        /\ DOMAIN out.spread = Range(base_tenors) \cap Range(df.columns)
        /\ \A t \in DOMAIN out.spread :
            /\ Len(out.spread[t]) = Len(df.index)
            /\ \A i \in DOMAIN df.index :
                IF df.col[t][i].kind = "float" /\ df.col[gc_col][i].kind = "float"
                THEN /\ out.spread[t][i].kind = "float"
                     /\ out.spread[t][i].num = 100 * df.col[t][i].num - 100 * df.col[gc_col][i].num
                ELSE out.spread[t][i].kind = "nan"

\* a table with a tenor below GC, a row without GC and a row without 5Y
C7_Witness ==
    /\ Saved(2)
    /\ \E i \in DOMAIN df.index : out.spread["5Y"][i] = Float(-200)
    /\ \E i \in DOMAIN df.index :
        df.col[gc_col][i] = NaN /\ df.col["5Y"][i] = Float(2) /\ out.spread["5Y"][i] = NaN
    /\ \E i \in DOMAIN df.index :
        df.col["5Y"][i] = NaN /\ out.spread["5Y"][i] = NaN /\ out.spread["2Y"][i] = Float(-100)

\* 25 times the sum of squared deviations from the mean of the 5 values of s
\* ending at i: the sum over them of (5 x - their total) squared
SquaredDeviations25(s, i) ==
    LET W == (i - 4)..i
        total == SumOver(W, [j \in W |-> s[j].num])
    IN SumOver(W, [j \in W |-> (5 * s[j].num - total) * (5 * s[j].num - total)])

\* C6: every series of the rolling-volatility chart (each base tenor of the
\* table, and GC) is missing, not zero, at positions 0 to 3, and at every
\* position i >= 4 is 100 times the sample standard deviation (divisor 4) of the
\* 5 values at positions i-4..i, missing when any of them is.  The chart's
\* value v is held as its square: v^2 = 100^2 x (sum of squared deviations) / 4.
C6_RollingVolatility ==
    Saved(5) =>
        /\ DOMAIN out.rolling = (Range(base_tenors) \cap Range(df.columns)) \cup {gc_col}
        /\ \A c \in DOMAIN out.rolling :
            /\ Len(out.rolling[c]) = Len(df.index)
            /\ \A i \in DOMAIN df.index :
                IF i <= 4 \/ \E j \in (i - 4)..i : df.col[c][j].kind = "nan"
                THEN out.rolling[c][i].kind = "nan"
                ELSE /\ out.rolling[c][i].kind = "float"
                     /\ out.rolling[c][i].num >= 0
                     /\ 4 * 25 * out.rolling[c][i].num
                            = 100 * 100 * SquaredDeviations25(df.col[c], i)

\* a table of 6 rows or more whose GC series is 1,1,3,3,1,... : positions 0-3
\* missing, a window of standard deviation sqrt(1.2) % = sqrt(12000) bps, and a
\* 5Y window holding a NaN
C6_Witness ==
    /\ Saved(5)
    /\ Len(df.index) >= 6
    /\ \A i \in 1..4 : out.rolling[gc_col][i] = NaN
    /\ out.rolling[gc_col][5] = Float(12000)
    /\ out.rolling[gc_col][6].kind = "float"
    /\ out.rolling[gc_col][6] # out.rolling[gc_col][5]
    /\ \E i \in 5..Len(df.index) : out.rolling["2Y"][i].kind = "float"

\* the rates of row i of the table over tenor_order, NaN where missing
RatesOfRow(i) ==
    [k \in DOMAIN tenor_order |->
        IF tenor_order[k] \in Range(df.columns) /\ df.col[tenor_order[k]][i].kind = "float"
        THEN df.col[tenor_order[k]][i] ELSE NaN]

Abs(x) == IF x < 0 THEN -x ELSE x

\* C4 as stated: min(6, n) rows are selected, every row when n <= 6, else the 6
\* positions i x (n-1)/5 rounded to the nearest integer; each curve uses the
\* rates of the row at its position.
C4_NearestPositions ==
    Saved(6) =>
        LET n == Len(df.index)
            pos == out.snapshots.positions
        IN /\ Len(pos) = IF n < 6 THEN n ELSE 6
           /\ n <= 6 => \A k \in DOMAIN pos : pos[k] = k - 1
           /\ n > 6 => \A k \in DOMAIN pos : 2 * Abs(5 * pos[k] - (k - 1) * (n - 1)) <= 5
           /\ \A k \in DOMAIN pos : out.snapshots.curves[k].rates = RatesOfRow(pos[k] + 1)

\* C4 amended: min(6, n) rows are selected, every row when n <= 6, else the 6
\* positions i x (n-1)/5 cut down to an integer (0, 19, 39, 59, 79, 99 for
\* n = 100); each curve is labelled with the date at its position and uses the
\* rates of the first row of the table carrying that date.
C4_TruncatedPositions ==
    /\ linspace_int(99, 6) = <<0, 19, 39, 59, 79, 99>>
    /\ Saved(6) =>
        LET n == Len(df.index)
            pos == out.snapshots.positions
        IN /\ Len(pos) = IF n < 6 THEN n ELSE 6
           /\ Len(out.snapshots.curves) = Len(pos)
           /\ n <= 6 => \A k \in DOMAIN pos : pos[k] = k - 1
           /\ n > 6 => \A k \in DOMAIN pos :
                /\ 5 * pos[k] <= (k - 1) * (n - 1)
                /\ (k - 1) * (n - 1) < 5 * (pos[k] + 1)
           /\ \A k \in DOMAIN pos :
                /\ out.snapshots.curves[k].label = TimeText(df.index[pos[k] + 1] + 1)
                /\ \E i \in 1..(pos[k] + 1) :
                    /\ df.col["time"][i] = df.col["time"][pos[k] + 1]
                    /\ \A j \in 1..(i - 1) : df.col["time"][j] # df.col["time"][pos[k] + 1]
                    /\ out.snapshots.curves[k].rates = RatesOfRow(i)

\* a table of 7 rows with distinct dates: positions 0,1,2,3,4,6, where
\* rounding to nearest gives 0,1,2,4,5,6
C4_Witness ==
    /\ Saved(6)
    /\ Len(df.index) = 7
    /\ \A i, j \in DOMAIN df.index : i # j => df.col["time"][i] # df.col["time"][j]
    /\ out.snapshots.positions = <<0, 1, 2, 3, 4, 6>>
    /\ out.snapshots.curves[4].rates = RatesOfRow(4)
    /\ RatesOfRow(4) # RatesOfRow(5)

====
